---- MODULE Spec2Model ----
(***************************************************************************)
(* Orchestration core of ai-co-scientist: the supervisor loop, its worker  *)
(* pool and asyncio task queue, the context memory shared by the agents,   *)
(* and the ranking agent's Elo tournament.                                 *)
(*                                                                         *)
(* Python objects that are mutated in place and reached through more than  *)
(* one reference (the hypothesis list, the tournament-state dict) live in  *)
(* a small heap, hl and ts, and are named by object ids; 0 is "no object". *)
(* A coroutine step is everything a coroutine does between two points      *)
(* where it can be suspended (queue.get, a model call, asyncio.sleep).     *)
(***************************************************************************)
EXTENDS Integers, Sequences, FiniteSets, TLC

\* ------------------------------------------------------------------ bounds
\* largest max_iterations handed to SupervisorAgent.execute
MaxIter == 2
\* number of workers (task["num_workers"])
MaxWorkers == 2
\* matches of one run_tournament_matches batch that the model plays out
MaxBatch == 2
\* model calls that raise during one run
MaxFaults == 1
\* matches played on a pre-seeded pair of ratings
MaxEloMatches == 2

\* ------------------------------------------------------- program constants
DefaultRating == 1200
KFactor == 32
DebateRating == 1300
MinHypotheses == 10
MinTopRanked == 5
TargetHypotheses == 20
GenerateCount == 5
ReviewsPerRound == 5
EvolutionsPerRound == 3
TournamentCount == 10
TopSlice == 10
FocusAreas == 3
HypothesesPerArea == 2

\* hypotheses the stubbed generation agent of the two-hypothesis scenario emits
StubCount == 2

\* rounds between two proximity tasks in the specification of the supervisor
ProximityEvery == 3

\* asyncio.Queue() is built without maxsize; the default 0 stands for "no limit"
QueueMaxsize == 0

\* ------------------------------------------------------------ sequences
Min(a, b) == IF a <= b THEN a ELSE b

Max(a, b) == IF a >= b THEN a ELSE b

Range(s) == {s[k] : k \in DOMAIN s}

\* s[:n]
Take(s, n) == SubSeq(s, 1, Min(n, Len(s)))

\* [x for x in s if Keep(x)]
RECURSIVE Filter(_, _)
Filter(s, keep) ==
  IF s = <<>> THEN <<>>
  ELSE IF Head(s) \in keep THEN <<Head(s)>> \o Filter(Tail(s), keep)
  ELSE Filter(Tail(s), keep)

\* [h["id"] for h in hyps]
Ids(hyps) == [k \in DOMAIN hyps |-> hyps[k].id]

\* ------------------------------------------------------------------- Elo
\* RankingAgent._update_elo_ratings computes round(r + 32 * (s - e)) in floating
\* point with e = 1 / (1 + 10 ** ((opp - r) / 400)).  For integer ratings the
\* result is r plus (s = 1) or minus (s = 0) a whole number of points between
\* 0 and 32 that depends on the rating difference alone and grows with it in
\* steps.  WinSteps[g] is the least opp - r at which a winner gains at least g
\* points, LossSteps[g] the least r - opp at which a loser loses at least g
\* points; both were tabulated by running the source expression.
WinSteps ==
  << -719, -523, -428, -364, -314, -273, -237, -205, -176, -149, -124, -100,
     -77, -54, -32, -10, 11, 33, 55, 78, 101, 125, 150, 177, 206, 238, 274,
     315, 365, 429, 524, 720 >>

LossSteps ==
  << -719, -523, -428, -364, -314, -273, -237, -205, -176, -149, -124, -100,
     -77, -54, -32, -10, 11, 33, 55, 78, 101, 125, 150, 177, 206, 238, 274,
     315, 365, 429, 524, 720 >>

StepCount(steps, d) == Cardinality({g \in DOMAIN steps : steps[g] <= d})

\* NewRating with the sign of the rating difference slipped in the loser's
\* expected score
NewRating_sign_slip(r, opp, s) ==
  IF s = 1 THEN r + StepCount(WinSteps, opp - r)
  ELSE r - StepCount(LossSteps, opp - r)

\* round(r + k_factor * (s - e)) for the participant rated r against opp
NewRating(r, opp, s) ==
  IF s = 1 THEN r + StepCount(WinSteps, opp - r)
  ELSE r - StepCount(LossSteps, r - opp)

\* ratings is a dict in insertion order: a sequence of [id, r]
HasRating(rs, id) == \E k \in DOMAIN rs : rs[k].id = id

\* ratings.get(id, default)
RatingOf(rs, id, default) ==
  IF HasRating(rs, id)
  THEN rs[CHOOSE k \in DOMAIN rs : rs[k].id = id].r
  ELSE default

\* ratings[id] = v
SetRating(rs, id, v) ==
  IF HasRating(rs, id)
  THEN [k \in DOMAIN rs |-> IF rs[k].id = id THEN [id |-> id, r |-> v] ELSE rs[k]]
  ELSE Append(rs, [id |-> id, r |-> v])

\* EnsureRating with another starting rating
EnsureRating_low(rs, id) == IF HasRating(rs, id) THEN rs ELSE SetRating(rs, id, 1000)

\* if id not in ratings: ratings[id] = 1200
EnsureRating(rs, id) == IF HasRating(rs, id) THEN rs ELSE SetRating(rs, id, DefaultRating)

RECURSIVE EnsureRatings(_, _)
EnsureRatings(rs, ids) ==
  IF ids = <<>> THEN rs ELSE EnsureRatings(EnsureRating(rs, Head(ids)), Tail(ids))

RECURSIVE Gcd(_, _)
Gcd(a, b) == IF b = 0 THEN a ELSE Gcd(b, a % b)

\* the float num / den as a fraction in lowest terms
Frac(num, den) == LET g == Gcd(num, den) IN <<num \div g, den \div g>>

FracLess(p, q) == p[1] * q[2] < q[1] * p[2]

FracLeq(p, q) == p[1] * q[2] <= q[1] * p[2]

_initialize_tournament ==
  [ratings |-> <<>>, matches |-> <<>>, completed_matches |-> 0,
   progress |-> <<0, 1>>, top_ranked |-> <<>>]

\* _update_elo_ratings computing the second rating from the first one's new value
_update_elo_ratings_sequential(h1, h2, winner, t) ==
  LET rs == EnsureRating(EnsureRating(t.ratings, h1), h2)
      r1 == RatingOf(rs, h1, DefaultRating)
      r2 == RatingOf(rs, h2, DefaultRating)
      s1 == IF winner = h1 THEN 1 ELSE 0
      s2 == IF winner = h2 THEN 1 ELSE 0
      n1 == NewRating(r1, r2, s1)
      n2 == NewRating(r2, n1, s2)
  IN [t EXCEPT !.ratings = SetRating(SetRating(rs, h1, n1), h2, n2),
               !.matches = Append(@, [h1 |-> h1, h2 |-> h2, winner |-> winner])]

\* _update_elo_ratings with a history entry that names the first hypothesis twice
_update_elo_ratings_self_match(h1, h2, winner, t) ==
  LET rs == EnsureRating(EnsureRating(t.ratings, h1), h2)
      r1 == RatingOf(rs, h1, DefaultRating)
      r2 == RatingOf(rs, h2, DefaultRating)
      s1 == IF winner = h1 THEN 1 ELSE 0
      s2 == IF winner = h2 THEN 1 ELSE 0
  IN [t EXCEPT !.ratings = SetRating(SetRating(rs, h1, NewRating(r1, r2, s1)),
                                     h2, NewRating(r2, r1, s2)),
               !.matches = Append(@, [h1 |-> h1, h2 |-> h1, winner |-> winner])]

\* _update_elo_ratings that also counts the match as completed
_update_elo_ratings_counting(h1, h2, winner, t) ==
  LET rs == EnsureRating(EnsureRating(t.ratings, h1), h2)
      r1 == RatingOf(rs, h1, DefaultRating)
      r2 == RatingOf(rs, h2, DefaultRating)
      s1 == IF winner = h1 THEN 1 ELSE 0
      s2 == IF winner = h2 THEN 1 ELSE 0
      n1 == NewRating(r1, r2, s1)
      n2 == NewRating(r2, r1, s2)
  IN [t EXCEPT !.ratings = SetRating(SetRating(rs, h1, n1), h2, n2),
               !.matches = Append(@, [h1 |-> h1, h2 |-> h2, winner |-> winner]),
               !.completed_matches = @ + 1]

_update_elo_ratings(h1, h2, winner, t) ==
  LET rs == EnsureRating(EnsureRating(t.ratings, h1), h2)
      r1 == RatingOf(rs, h1, DefaultRating)
      r2 == RatingOf(rs, h2, DefaultRating)
      s1 == IF winner = h1 THEN 1 ELSE 0
      s2 == IF winner = h2 THEN 1 ELSE 0
      n1 == NewRating(r1, r2, s1)
      n2 == NewRating(r2, r1, s2)
  IN [t EXCEPT !.ratings = SetRating(SetRating(rs, h1, n1), h2, n2),
               !.matches = Append(@, [h1 |-> h1, h2 |-> h2, winner |-> winner])]

\* the tournament state after the rating initialisation of _select_hypothesis_pair
_select_hypothesis_pair(eligible, t) ==
  [t EXCEPT !.ratings = EnsureRatings(@, eligible)]

\* sorted(..., key=rating, reverse=True): descending and stable
RECURSIVE SortDesc(_)
SortDesc(rs) ==
  IF rs = <<>> THEN <<>>
  ELSE LET rest == SortDesc(SubSeq(rs, 1, Len(rs) - 1))
           x == rs[Len(rs)]
           \* x goes behind every entry rated at least as high
           n == Cardinality({k \in DOMAIN rest : rest[k].r >= x.r})
       IN SubSeq(rest, 1, n) \o <<x>> \o SubSeq(rest, n + 1, Len(rest))

RECURSIVE FilterRatings(_, _)
FilterRatings(rs, keep) ==
  IF rs = <<>> THEN <<>>
  ELSE IF Head(rs).id \in keep THEN <<Head(rs)>> \o FilterRatings(Tail(rs), keep)
  ELSE FilterRatings(Tail(rs), keep)

_get_top_ranked(t, hyps) == Ids(SortDesc(FilterRatings(t.ratings, Range(Ids(hyps)))))

\* FinishBatch without the min(1.0, ...) around the quotient
FinishBatch_unclamped(t, played, n, hyps) ==
  LET total == (n * (n - 1)) \div 2
      completed == t.completed_matches + played
      t1 == [t EXCEPT !.completed_matches = completed,
                      !.progress = Frac(completed, Max(1, total))]
  IN [t1 EXCEPT !.top_ranked = _get_top_ranked(t1, hyps)]

\* lines 81-88: completed_matches, progress and top_ranked after a batch that
\* played `played` matches among n eligible hypotheses
FinishBatch(t, played, n, hyps) ==
  LET total == (n * (n - 1)) \div 2
      completed == t.completed_matches + played
      den == Max(1, total)
      t1 == [t EXCEPT !.completed_matches = completed,
                      !.progress = IF completed >= den THEN <<1, 1>>
                                   ELSE Frac(completed, den)]
  IN [t1 EXCEPT !.top_ranked = _get_top_ranked(t1, hyps)]

\* _run_match: debate when both ratings, read from the stored state, reach 1300
MatchKind(stored, h1, h2) ==
  IF RatingOf(stored, h1, DefaultRating) >= DebateRating
     /\ RatingOf(stored, h2, DefaultRating) >= DebateRating
  THEN "debate" ELSE "simple"

\* ----------------------------------------------------------------- state
VARIABLES
  max_iterations,  \* task["max_iterations"]
  num_workers,     \* task["num_workers"]
  agents,          \* SupervisorAgent.agents: the names registered
  shared,          \* do the agents and the supervisor hold one context memory?
  stub,            \* hypotheses a stubbed generation agent emits, 0 with the real one
  cm,              \* context memory of each owner
  hl,              \* heap of hypothesis lists
  ts,              \* heap of tournament-state dicts
  queue,           \* SupervisorAgent.task_queue
  wk,              \* the worker coroutines
  sup,             \* the supervisor coroutine: position, round index i
  running,         \* SupervisorAgent.running
  nextId,          \* next fresh hypothesis id (uuid4 never repeats)
  faults,          \* model calls that have raised
  meta,            \* calls of meta_review.execute and the argument of the last one
  unfinished,      \* task_queue._unfinished_tasks: tasks put and not yet marked done
  result           \* what SupervisorAgent.execute returned

vars ==
  <<max_iterations, num_workers, agents, shared, stub, cm, hl, ts, queue, wk, sup,
    running, nextId, faults, meta, unfinished, result>>

Owners == {"supervisor", "generation", "reflection", "ranking", "evolution"}

\* main.py lines 53-58
AllAgents == {"generation", "reflection", "ranking", "proximity", "evolution", "meta_review"}

\* every worker holds at most one reference of each kind, the memories two more
ObjIds == 1 .. (MaxWorkers + 3)

NoTask == [agent |-> "none", task_type |-> "none", hypothesis_id |-> 0, count |-> 0]

IdleWorker ==
  [pc |-> "get", cancel |-> FALSE, task |-> NoTask, hlref |-> 0, tsref |-> 0,
   eligible |-> <<>>, batch |-> <<>>, kind |-> "none"]

EmptyMemory ==
  [keys |-> {}, hypotheses |-> 0, reviewed |-> <<>>, tournament_state |-> 0,
   top_hypotheses |-> <<>>, stats |-> <<>>, passed |-> FALSE, hypothesis_id |-> 0]

\* BaseAgent.__init__: "context_memory or {}" keeps the caller's dict only when
\* it is not empty; an empty one is replaced by a dict of the agent's own
Own(agent) == IF shared THEN "supervisor" ELSE agent

HypList(ref, heap) == IF ref = 0 THEN <<>> ELSE heap[ref]

\* get_from_context_memory("hypotheses", []), as a value
HypsOf(m) == HypList(m.hypotheses, hl)

\* get_from_context_memory("tournament_state", {}), as a value
TournamentOf(m, heap) ==
  IF m.tournament_state = 0 THEN _initialize_tournament ELSE heap[m.tournament_state]

HlRefs(c, w) ==
  ({c[o].hypotheses : o \in Owners} \cup {w[k].hlref : k \in DOMAIN w}) \ {0}

TsRefs(c, w) ==
  ({c[o].tournament_state : o \in Owners} \cup {w[k].tsref : k \in DOMAIN w}) \ {0}

\* an object nobody refers to any more is gone
CollectHl(heap, c, w) == [o \in ObjIds |-> IF o \in HlRefs(c, w) THEN heap[o] ELSE <<>>]

CollectTs(heap, c, w) ==
  [o \in ObjIds |-> IF o \in TsRefs(c, w) THEN heap[o] ELSE _initialize_tournament]

NewHl ==
  CHOOSE o \in ObjIds :
    o \notin HlRefs(cm, wk) /\ \A q \in ObjIds : q < o => q \in HlRefs(cm, wk)

NewTs ==
  CHOOSE o \in ObjIds :
    o \notin TsRefs(cm, wk) /\ \A q \in ObjIds : q < o => q \in TsRefs(cm, wk)

\* Hyp with a parent_id that is not the id of the hypothesis evolved
Hyp_foreign_parent(id, parent) == [id |-> id, parent |-> IF parent = 0 THEN 0 ELSE 0 - parent]

Hyp(id, parent) == [id |-> id, parent |-> parent]

\* hypotheses id .. id + n - 1 without parents
RECURSIVE FreshHyps(_, _)
FreshHyps(id, n) == IF n = 0 THEN <<>> ELSE <<Hyp(id, 0)>> \o FreshHyps(id + 1, n - 1)

RECURSIVE PlayMatches(_, _, _, _)
PlayMatches(t, h1, h2, winners) ==
  IF winners = <<>> THEN t
  ELSE PlayMatches(_update_elo_ratings(h1, h2, Head(winners), t), h1, h2, Tail(winners))

\* ------------------------------------------------------------------ Init
\* The context memory handed to the constructors (main.py hands over {}):
\*   "empty"  {}: every agent then builds a memory of its own
\*   "fresh"  a dict that holds an empty hypothesis list
\*   "pair"   two reviewed hypotheses, no tournament yet
\*   "ranked" two reviewed hypotheses and the tournament state that one batch
\*            of ten matches between them leaves behind
\*   "mature" ten reviewed hypotheses and the tournament state that one batch
\*            of ten matches among the first five of them leaves behind
\* and, for the tournament-only harness,
\*   "unordered" four reviewed hypotheses whose list order is not the order of
\*            their ids (ids are uuid4 strings), no tournament state
\*   "growing" nine reviewed hypotheses and the tournament state that one
\*            batch of ten matches leaves behind when it ran while only the
\*            first six were on the list (a round reviews up to five more)
\* and, for the review-only harness,
\*   "unreviewed" two hypotheses, none reviewed, no tournament state
\*   "plenty" as many hypotheses as the target of the supervisor, none reviewed
SeedNames == {"empty", "fresh", "pair", "ranked", "mature"}

SeedHyps(seed) ==
  CASE seed \in {"pair", "ranked", "unreviewed"} -> FreshHyps(1, 2)
    [] seed = "mature" -> FreshHyps(1, MinHypotheses)
    [] seed = "unordered" -> <<Hyp(1, 0), Hyp(2, 0), Hyp(4, 0), Hyp(3, 0)>>
    [] seed = "growing" -> FreshHyps(1, 9)
    [] seed = "plenty" -> FreshHyps(1, TargetHypotheses)
    [] OTHER -> <<>>

SeedWinners == <<1, 2, 2, 1, 1, 1, 2, 1, 2, 2>>

SeedTournament(seed) ==
  IF seed = "mature"
  THEN FinishBatch(
         PlayMatches(_select_hypothesis_pair(<<1, 2, 3, 4, 5>>, _initialize_tournament),
                     1, 2, SeedWinners),
         TournamentCount, MinTopRanked, SeedHyps(seed))
  ELSE IF seed = "growing"
  THEN FinishBatch(
         PlayMatches(_select_hypothesis_pair(<<1, 2, 3, 4, 5, 6>>, _initialize_tournament),
                     1, 2, SeedWinners),
         TournamentCount, 6, FreshHyps(1, 6))
  ELSE IF seed = "ranked"
  THEN FinishBatch(
         PlayMatches(_select_hypothesis_pair(<<1, 2>>, _initialize_tournament),
                     1, 2, SeedWinners),
         TournamentCount, 2, SeedHyps(seed))
  ELSE _initialize_tournament

SeedMemory(seed) ==
  CASE seed = "empty" -> EmptyMemory
    [] seed \in {"fresh", "unreviewed", "plenty"} ->
         [EmptyMemory EXCEPT !.keys = {"hypotheses"}, !.hypotheses = 1]
    [] seed = "pair" ->
         [EmptyMemory EXCEPT !.keys = {"hypotheses", "reviewed_hypotheses"},
                             !.hypotheses = 1, !.reviewed = <<1, 2>>]
    [] seed = "unordered" ->
         [EmptyMemory EXCEPT !.keys = {"hypotheses", "reviewed_hypotheses"},
                             !.hypotheses = 1, !.reviewed = Ids(SeedHyps(seed))]
    [] seed \in {"ranked", "mature", "growing"} ->
         [EmptyMemory EXCEPT
            !.keys = {"hypotheses", "reviewed_hypotheses", "tournament_state"},
            !.hypotheses = 1, !.reviewed = Ids(SeedHyps(seed)),
            !.tournament_state = 1]

InitialTask ==
  [agent |-> "generation", task_type |-> "initial_generation", hypothesis_id |-> 0,
   count |-> 0]

\* _initialize_task_queue
InitialQueue(registered) == IF "generation" \in registered THEN <<InitialTask>> ELSE <<>>

\* the state when execute() first reaches asyncio.sleep: research_plan stored,
\* workers created, the queue seeded by _initialize_task_queue
InitStubbed(seeds, registries, iters, workers, stubs) ==
  /\ max_iterations \in iters
  /\ stub \in stubs
  /\ num_workers \in workers
  /\ agents \in registries
  /\ \E seed \in seeds :
       /\ shared = (seed # "empty")
       /\ cm = [o \in Owners |->
                 IF o = "supervisor"
                 THEN [SeedMemory(seed) EXCEPT !.keys = @ \cup {"research_plan"}]
                 ELSE EmptyMemory]
       /\ hl = [o \in ObjIds |-> IF o = 1 THEN SeedHyps(seed) ELSE <<>>]
       /\ ts = [o \in ObjIds |->
                 IF o = 1 THEN SeedTournament(seed) ELSE _initialize_tournament]
       /\ nextId = Len(SeedHyps(seed)) + 1
  /\ queue = InitialQueue(agents)
  /\ unfinished = Len(queue)
  /\ wk = [w \in 1 .. num_workers |-> IdleWorker]
  /\ sup = [pc |-> "sleep", i |-> 0]
  /\ running = TRUE
  /\ faults = 0
  /\ meta = [calls |-> 0, top_hypotheses |-> <<>>]
  /\ result = [status |-> "none", top_hypotheses |-> <<>>, statistics |-> <<>>]

\* the same with the GenerationAgent of the repository
InitWith(seeds, registries, iters, workers) ==
  InitStubbed(seeds, registries, iters, workers, {0})

\* ------------------------------------------------------------ supervisor
Task(agent, type, id, count) ==
  [agent |-> agent, task_type |-> type, hypothesis_id |-> id, count |-> count]

\* update_context_memory(key, ...): the key is now present
WithKeys(m, ks) == [m EXCEPT !.keys = @ \cup ks]

_calculate_statistics ==
  LET m == cm["supervisor"]
      hyps == HypsOf(m)
      t == TournamentOf(m, ts)
  IN [num_hypotheses |-> Len(hyps),
      num_reviewed |-> Len(m.reviewed),
      unreviewed_hypotheses |-> Filter(Ids(hyps), Range(Ids(hyps)) \ Range(m.reviewed)),
      tournament_progress |-> t.progress,
      top_hypotheses |-> Take(t.top_ranked, TopSlice)]

\* _check_terminal_state without its quality branch
_check_terminal_state_iterations_only(stats, iteration, maxit) ==
  iteration >= maxit - 1

\* _check_terminal_state with the iteration test off by one
_check_terminal_state_late(stats, iteration, maxit) ==
  \/ iteration >= maxit
  \/ /\ stats.num_hypotheses >= MinHypotheses
     /\ stats.num_reviewed >= MinHypotheses
     /\ Len(stats.top_hypotheses) >= MinTopRanked
     /\ FracLess(<<9, 10>>, stats.tournament_progress)

_check_terminal_state(stats, iteration, maxit) ==
  \/ iteration >= maxit - 1
  \/ /\ stats.num_hypotheses >= MinHypotheses
     /\ stats.num_reviewed >= MinHypotheses
     /\ Len(stats.top_hypotheses) >= MinTopRanked
     /\ FracLess(<<9, 10>>, stats.tournament_progress)

ReviewTasks(ids) == [k \in DOMAIN ids |-> Task("reflection", "review_hypothesis", ids[k], 0)]

EvolutionTasks(ids) == [k \in DOMAIN ids |-> Task("evolution", "evolve_hypothesis", ids[k], 0)]

\* _update_task_queue without the test against the target
_update_task_queue_no_target(stats) ==
  <<Task("generation", "generate_hypotheses", 0, GenerateCount)>>
  \o ReviewTasks(Take(stats.unreviewed_hypotheses, ReviewsPerRound))
  \o (IF FracLess(stats.tournament_progress, <<4, 5>>)
      THEN <<Task("ranking", "run_tournament_matches", 0, TournamentCount)>> ELSE <<>>)
  \o EvolutionTasks(Take(stats.top_hypotheses, EvolutionsPerRound))

\* _update_task_queue without the slices [:5] and [:3]
_update_task_queue_unsliced(stats) ==
  (IF stats.num_hypotheses < TargetHypotheses
   THEN <<Task("generation", "generate_hypotheses", 0, GenerateCount)>> ELSE <<>>)
  \o ReviewTasks(stats.unreviewed_hypotheses)
  \o (IF FracLess(stats.tournament_progress, <<4, 5>>)
      THEN <<Task("ranking", "run_tournament_matches", 0, TournamentCount)>> ELSE <<>>)
  \o EvolutionTasks(stats.top_hypotheses)

\* the tasks _update_task_queue puts on the queue, in order
_update_task_queue(stats) ==
  (IF stats.num_hypotheses < TargetHypotheses
   THEN <<Task("generation", "generate_hypotheses", 0, GenerateCount)>> ELSE <<>>)
  \o ReviewTasks(Take(stats.unreviewed_hypotheses, ReviewsPerRound))
  \o (IF FracLess(stats.tournament_progress, <<4, 5>>)
      THEN <<Task("ranking", "run_tournament_matches", 0, TournamentCount)>> ELSE <<>>)
  \o EvolutionTasks(Take(stats.top_hypotheses, EvolutionsPerRound))

\* Returned with the statistics of the first round in place of the last
Returned_first_round(m, i) ==
  [status |-> "completed", top_hypotheses |-> m.top_hypotheses,
   statistics |-> <<m.stats[1]>>]

\* the map execute() returns, lines 97-102
Returned(m, i) ==
  [status |-> "completed", top_hypotheses |-> m.top_hypotheses,
   statistics |-> <<m.stats[i + 1]>>]

\* Round with the refill put in front of the tasks already waiting
Round_refill_at_front ==
  /\ sup.pc = "sleep"
  /\ LET stats == _calculate_statistics
         m1 == [WithKeys(cm["supervisor"], {"stats_iteration"})
                  EXCEPT !.stats = Append(@, stats)]
     IN /\ cm' = [cm EXCEPT !["supervisor"] = m1]
        /\ IF _check_terminal_state(stats, sup.i, max_iterations)
           THEN /\ running' = FALSE
                /\ wk' = [w \in DOMAIN wk |-> [wk[w] EXCEPT !.cancel = TRUE]]
                /\ IF "meta_review" \in agents
                   THEN /\ meta' = [calls |-> meta.calls + 1,
                                    top_hypotheses |-> m1.top_hypotheses]
                        /\ sup' = [sup EXCEPT !.pc = "meta"]
                        /\ UNCHANGED result
                   ELSE /\ sup' = [sup EXCEPT !.pc = "done"]
                        /\ result' = Returned(m1, sup.i)
                        /\ UNCHANGED meta
                /\ UNCHANGED queue
           ELSE /\ queue' = _update_task_queue(stats) \o queue
                /\ sup' = [sup EXCEPT !.i = @ + 1]
                /\ UNCHANGED <<running, wk, meta, result>>
  /\ unfinished' = unfinished + (Len(queue') - Len(queue))
  /\ UNCHANGED <<max_iterations, num_workers, agents, shared, stub, hl, ts, nextId, faults>>

\* Round with the refill placed before the test of the terminal state
Round_refills_when_terminal ==
  /\ sup.pc = "sleep"
  /\ LET stats == _calculate_statistics
         m1 == [WithKeys(cm["supervisor"], {"stats_iteration"})
                  EXCEPT !.stats = Append(@, stats)]
     IN /\ cm' = [cm EXCEPT !["supervisor"] = m1]
        /\ IF _check_terminal_state(stats, sup.i, max_iterations)
           THEN /\ running' = FALSE
                /\ wk' = [w \in DOMAIN wk |-> [wk[w] EXCEPT !.cancel = TRUE]]
                /\ IF "meta_review" \in agents
                   THEN /\ meta' = [calls |-> meta.calls + 1,
                                    top_hypotheses |-> m1.top_hypotheses]
                        /\ sup' = [sup EXCEPT !.pc = "meta"]
                        /\ UNCHANGED result
                   ELSE /\ sup' = [sup EXCEPT !.pc = "done"]
                        /\ result' = Returned(m1, sup.i)
                        /\ UNCHANGED meta
                /\ queue' = queue \o _update_task_queue(stats)
           ELSE /\ queue' = queue \o _update_task_queue(stats)
                /\ sup' = [sup EXCEPT !.i = @ + 1]
                /\ UNCHANGED <<running, wk, meta, result>>
  /\ unfinished' = unfinished + (Len(queue') - Len(queue))
  /\ UNCHANGED <<max_iterations, num_workers, agents, shared, stub, hl, ts, nextId, faults>>

\* One pass of the loop body of execute() after asyncio.sleep returns: the
\* statistics are computed and stored, then either the queue is refilled, or
\* the loop is left, the workers are cancelled and meta_review.execute is
\* entered (execute() returns at once when no meta_review agent is registered).
\* asyncio.Queue() is unbounded, so no put suspends.
Round ==
  /\ sup.pc = "sleep"
  /\ LET stats == _calculate_statistics
         m1 == [WithKeys(cm["supervisor"], {"stats_iteration"})
                  EXCEPT !.stats = Append(@, stats)]
     IN /\ cm' = [cm EXCEPT !["supervisor"] = m1]
        /\ IF _check_terminal_state(stats, sup.i, max_iterations)
           THEN /\ running' = FALSE
                /\ wk' = [w \in DOMAIN wk |-> [wk[w] EXCEPT !.cancel = TRUE]]
                /\ IF "meta_review" \in agents
                   THEN /\ meta' = [calls |-> meta.calls + 1,
                                    top_hypotheses |-> m1.top_hypotheses]
                        /\ sup' = [sup EXCEPT !.pc = "meta"]
                        /\ UNCHANGED result
                   ELSE /\ sup' = [sup EXCEPT !.pc = "done"]
                        /\ result' = Returned(m1, sup.i)
                        /\ UNCHANGED meta
                /\ UNCHANGED queue
           ELSE /\ queue' = queue \o _update_task_queue(stats)
                /\ sup' = [sup EXCEPT !.i = @ + 1]
                /\ UNCHANGED <<running, wk, meta, result>>
  /\ unfinished' = unfinished + (Len(queue') - Len(queue))
  /\ UNCHANGED <<max_iterations, num_workers, agents, shared, stub, hl, ts, nextId, faults>>

\* meta_review.execute returns: the overview is stored and execute() returns
MetaReviewDone ==
  /\ sup.pc = "meta"
  /\ cm' = [cm EXCEPT !["supervisor"] = WithKeys(@, {"research_overview"})]
  /\ result' = Returned(cm["supervisor"], sup.i)
  /\ sup' = [sup EXCEPT !.pc = "done"]
  /\ UNCHANGED <<max_iterations, num_workers, agents, shared, stub, hl, ts, queue, wk,
                 running, nextId, faults, meta, unfinished>>

\* ---------------------------------------------------------------- workers
\* CanTake with workers that take a task only while no other worker is in a call
CanTake_one_at_a_time(w, agent) ==
  /\ wk[w].pc = "get"
  /\ ~wk[w].cancel
  /\ queue # <<>>
  /\ Head(queue).agent = agent
  /\ agent \in agents
  /\ \A v \in DOMAIN wk : wk[v].pc # "call"

\* _worker is at "await self.task_queue.get()" and a task is there for it
CanTake(w, agent) ==
  /\ wk[w].pc = "get"
  /\ ~wk[w].cancel
  /\ queue # <<>>
  /\ Head(queue).agent = agent
  /\ agent \in agents

\* _worker is inside agent.execute, at a model call that now returns
InCall(w, agent) ==
  /\ wk[w].pc = "call"
  /\ ~wk[w].cancel
  /\ wk[w].task.agent = agent

Frame ==
  UNCHANGED <<max_iterations, num_workers, agents, shared, stub, sup, running, meta, result>>

\* task_queue.task_done() of _worker, line 119 when the agent has returned or
\* is not registered, line 124 when it raised; none while the agent is in a call
Marked(w) == unfinished' = IF wk'[w].pc = "call" THEN unfinished ELSE unfinished - 1

\* the worker has handled its task and is back at task_queue.get()
Back(w) == [wk EXCEPT ![w] = IdleWorker]

\* the worker is suspended inside agent.execute
Calling(w, hlref, tsref, eligible, kind) ==
  [wk EXCEPT ![w] =
     [IdleWorker EXCEPT !.pc = "call", !.task = Head(queue), !.hlref = hlref,
                        !.tsref = tsref, !.eligible = eligible, !.kind = kind]]

\* the worker copies the items of the result map into its context memory
CopyResult(c, ks) == [c EXCEPT !["supervisor"] = WithKeys(@, ks)]

\* _worker lines 111-119 for a task whose agent is not registered: task_done only
SkipTask(w) ==
  /\ wk[w].pc = "get"
  /\ ~wk[w].cancel
  /\ queue # <<>>
  /\ Head(queue).agent \notin agents
  /\ queue' = Tail(queue)
  /\ UNCHANGED <<cm, hl, ts, wk, nextId, faults>>
  /\ Marked(w)
  /\ Frame

\* GenerationAgent.execute up to its first model call
GenerationStart(w) ==
  /\ CanTake(w, "generation")
  /\ wk' = Calling(w, 0, 0, <<>>, "none")
  /\ queue' = Tail(queue)
  /\ UNCHANGED <<cm, hl, ts, nextId, faults>>
  /\ Marked(w)
  /\ Frame

\* a generation agent stubbed to emit `stub` hypotheses: it answers the
\* initial_generation task with them and has no more for later tasks
StubGenerated(task) == IF task.task_type = "initial_generation" THEN stub ELSE 0

\* number of hypotheses a generation task produces
Generated(task) ==
  IF stub # 0 THEN StubGenerated(task)
  ELSE IF task.task_type = "initial_generation" THEN FocusAreas * HypothesesPerArea
  ELSE task.count

\* _initial_generation lines 74-84 and _generate_hypotheses lines 146-154, then
\* the worker's copy of the result map
GenerationDone(w) ==
  /\ InCall(w, "generation")
  /\ LET task == wk[w].task
         mine == Own("generation")
         all_hypotheses == HypsOf(cm[mine]) \o FreshHyps(nextId, Generated(task))
         ref == NewHl
         ks == IF task.task_type = "initial_generation"
               THEN {"hypotheses", "focus_areas"} ELSE {"hypotheses"}
         c1 == [cm EXCEPT ![mine] = [WithKeys(@, ks) EXCEPT !.hypotheses = ref]]
     IN /\ cm' = [CopyResult(c1, ks \cup {"generated_hypotheses"})
                    EXCEPT !["supervisor"].hypotheses = ref]
        /\ wk' = Back(w)
        /\ hl' = CollectHl([hl EXCEPT ![ref] = all_hypotheses], cm', wk')
        /\ nextId' = nextId + Generated(task)
  /\ UNCHANGED <<ts, queue, faults>>
  /\ Marked(w)
  /\ Frame

\* next((h for h in hypotheses if h.get("id") == hypothesis_id), None) is not None
Found(hyps, id) == \E k \in DOMAIN hyps : hyps[k].id = id

\* ReflectionAgent._review_hypothesis up to the model call of the initial
\* review, or its error map when the hypothesis is not found (lines 52-53)
ReflectionStart(w) ==
  /\ CanTake(w, "reflection")
  /\ IF Found(HypsOf(cm[Own("reflection")]), Head(queue).hypothesis_id)
     THEN /\ wk' = Calling(w, 0, 0, <<>>, "none")
          /\ UNCHANGED cm
     ELSE /\ cm' = CopyResult(cm, {"error"})
          /\ UNCHANGED wk
  /\ queue' = Tail(queue)
  /\ UNCHANGED <<hl, ts, nextId, faults>>
  /\ Marked(w)
  /\ Frame

ReviewKeys ==
  {"hypothesis_id", "initial_review", "full_review", "deep_verification",
   "observation_review", "passed"}

\* "passed" of the dummy result that _perform_initial_review, _perform_full_review
\* and _perform_deep_verification return whatever the model answered
DummyPassed == TRUE

\* "passed" of the review results, lines 59-77
ReviewPassed(initial, full, deep) == IF initial THEN full /\ deep ELSE FALSE

\* ReflectionAgent._review_hypothesis lines 58-84 and the worker's copy
ReflectionDone(w) ==
  /\ InCall(w, "reflection")
  /\ LET mine == Own("reflection")
         c1 == [cm EXCEPT ![mine] =
                  [WithKeys(@, {"reviewed_hypotheses"})
                     EXCEPT !.reviewed = Append(@, wk[w].task.hypothesis_id)]]
     IN cm' = [CopyResult(c1, ReviewKeys) EXCEPT
                 !["supervisor"].passed = ReviewPassed(DummyPassed, DummyPassed, DummyPassed),
                 !["supervisor"].hypothesis_id = wk[w].task.hypothesis_id]
  /\ wk' = Back(w)
  /\ UNCHANGED <<hl, ts, queue, nextId, faults>>
  /\ Marked(w)
  /\ Frame

\* EvolutionAgent._evolve_hypothesis up to the model call of the technique (the
\* coroutine keeps the list object it read), or its error map (lines 59-60)
EvolutionStart(w) ==
  /\ CanTake(w, "evolution")
  /\ IF Found(HypsOf(cm[Own("evolution")]), Head(queue).hypothesis_id)
     THEN /\ wk' = Calling(w, cm[Own("evolution")].hypotheses, 0, <<>>, "none")
          /\ UNCHANGED cm
     ELSE /\ cm' = CopyResult(cm, {"error"})
          /\ UNCHANGED wk
  /\ queue' = Tail(queue)
  /\ UNCHANGED <<hl, ts, nextId, faults>>
  /\ Marked(w)
  /\ Frame

EvolutionKeys == {"original_hypothesis_id", "evolved_hypothesis", "technique"}

\* EvolutionAgent._evolve_hypothesis lines 73-84: the evolved hypothesis is
\* appended to the list object read before the model call, and that object is
\* stored.  _out_of_box_thinking records no parent_id, the other techniques do.
EvolutionDone(w) ==
  /\ InCall(w, "evolution")
  /\ \E parent \in {0, wk[w].task.hypothesis_id} :
       LET mine == Own("evolution")
           ref == wk[w].hlref
           c1 == [cm EXCEPT ![mine] = [WithKeys(@, {"hypotheses"}) EXCEPT !.hypotheses = ref]]
       IN /\ cm' = CopyResult(c1, EvolutionKeys)
          /\ wk' = Back(w)
          /\ hl' = CollectHl([hl EXCEPT ![ref] = Append(@, Hyp(nextId, parent))], cm', wk')
  /\ nextId' = nextId + 1
  /\ UNCHANGED <<ts, queue, faults>>
  /\ Marked(w)
  /\ Frame

\* Eligible without the test on reviewed_hypotheses
Eligible_all(m) == Ids(HypsOf(m))

\* eligible_hypotheses of _run_tournament_matches, as ids in list order
Eligible(m) == Filter(Ids(HypsOf(m)), Range(m.reviewed))

\* matches the model plays of a batch of `count`
BatchSize(count) == Min(count, MaxBatch)

\* the tournament-state object a batch works on: the stored dict when there is
\* a non-empty one, else a new dict from _initialize_tournament
BatchState(m) == IF m.tournament_state # 0 THEN m.tournament_state ELSE NewTs

\* ratings that _run_match reads: those of the stored tournament state
StoredRatings(m, heap) == TournamentOf(m, heap).ratings

\* _run_tournament_matches up to the model call of the first match
\* (_select_hypothesis_pair initialises ratings in the dict itself), or, with
\* fewer than two eligible hypotheses, its error map (lines 58-62), which
\* carries the tournament state and which the worker stores
RankingStart(w) ==
  /\ CanTake(w, "ranking")
  /\ LET m == cm[Own("ranking")]
         eligible == Eligible(m)
         ref == BatchState(m)
         ts1 == [ts EXCEPT ![ref] = _select_hypothesis_pair(eligible, @)]
     IN IF Len(eligible) >= 2
        THEN /\ wk' = Calling(w, m.hypotheses, ref, eligible,
                              MatchKind(StoredRatings(m, ts1), eligible[1], eligible[2]))
             /\ ts' = ts1
             /\ UNCHANGED cm
        ELSE /\ cm' = [CopyResult(cm, {"error", "tournament_state"})
                         EXCEPT !["supervisor"].tournament_state = ref]
             /\ ts' = CollectTs(ts, cm', wk)
             /\ UNCHANGED wk
  /\ queue' = Tail(queue)
  /\ UNCHANGED <<hl, nextId, faults>>
  /\ Marked(w)
  /\ Frame

\* the record _run_match returns (debate_summary or comparison_summary tells the kind)
MatchResult(w, winner) ==
  [h1 |-> wk[w].eligible[1], h2 |-> wk[w].eligible[2], winner |-> winner,
   kind |-> wk[w].kind]

\* RankingNextMatch with a selection that moves on to the next pair after a match
RankingNextMatch_next_pair(w) ==
  /\ InCall(w, "ranking")
  /\ Len(wk[w].batch) + 1 < BatchSize(wk[w].task.count)
  /\ \E winner \in {wk[w].eligible[1], wk[w].eligible[2]} :
       LET ref == wk[w].tsref
           t1 == _update_elo_ratings(wk[w].eligible[1], wk[w].eligible[2], winner, ts[ref])
           ts1 == [ts EXCEPT ![ref] = _select_hypothesis_pair(wk[w].eligible, t1)]
       IN /\ ts' = ts1
          /\ wk' = [wk EXCEPT ![w].batch = Append(@, MatchResult(w, winner)),
                              ![w].eligible = Tail(@) \o <<Head(@)>>,
                              ![w].kind = MatchKind(StoredRatings(cm[Own("ranking")], ts1),
                                                    wk[w].eligible[1], wk[w].eligible[2])]
  /\ UNCHANGED <<cm, hl, queue, nextId, faults>>
  /\ Marked(w)
  /\ Frame

\* a match that is not the last of its batch: the model call returns, a winner
\* is drawn, the ratings are updated, and the next match reaches its model call
RankingNextMatch(w) ==
  /\ InCall(w, "ranking")
  /\ Len(wk[w].batch) + 1 < BatchSize(wk[w].task.count)
  /\ \E winner \in {wk[w].eligible[1], wk[w].eligible[2]} :
       LET ref == wk[w].tsref
           t1 == _update_elo_ratings(wk[w].eligible[1], wk[w].eligible[2], winner, ts[ref])
           ts1 == [ts EXCEPT ![ref] = _select_hypothesis_pair(wk[w].eligible, t1)]
       IN /\ ts' = ts1
          /\ wk' = [wk EXCEPT ![w].batch = Append(@, MatchResult(w, winner)),
                              ![w].kind = MatchKind(StoredRatings(cm[Own("ranking")], ts1),
                                                    wk[w].eligible[1], wk[w].eligible[2])]
  /\ UNCHANGED <<cm, hl, queue, nextId, faults>>
  /\ Marked(w)
  /\ Frame

\* the last match of a batch, lines 81-96, and the worker's copy of the result
RankingBatchDone(w) ==
  /\ InCall(w, "ranking")
  /\ Len(wk[w].batch) + 1 >= BatchSize(wk[w].task.count)
  /\ \E winner \in {wk[w].eligible[1], wk[w].eligible[2]} :
       LET ref == wk[w].tsref
           mine == Own("ranking")
           t1 == _update_elo_ratings(wk[w].eligible[1], wk[w].eligible[2], winner, ts[ref])
           t2 == FinishBatch(t1, Len(wk[w].batch) + 1, Len(wk[w].eligible),
                             HypList(wk[w].hlref, hl))
           c1 == [cm EXCEPT ![mine] =
                    [WithKeys(@, {"tournament_state"}) EXCEPT !.tournament_state = ref]]
       IN /\ cm' = [CopyResult(c1, {"matches", "tournament_state"})
                      EXCEPT !["supervisor"].tournament_state = ref]
          /\ wk' = Back(w)
          /\ ts' = CollectTs([ts EXCEPT ![ref] = t2], cm', wk')
          /\ hl' = CollectHl(hl, cm', wk')
  /\ UNCHANGED <<queue, nextId, faults>>
  /\ Marked(w)
  /\ Frame

\* AgentRaises with a worker that lets the exception end its loop
AgentRaises_unhandled(w) ==
  /\ wk[w].pc = "call"
  /\ ~wk[w].cancel
  /\ faults < MaxFaults
  /\ faults' = faults + 1
  /\ wk' = [wk EXCEPT ![w] = [IdleWorker EXCEPT !.pc = "exit"]]
  /\ hl' = CollectHl(hl, cm, wk')
  /\ ts' = CollectTs(ts, cm, wk')
  /\ UNCHANGED <<cm, queue, nextId>>
  /\ UNCHANGED unfinished
  /\ Frame

\* AgentRaises with a handler that logs the exception and does not mark the task done
AgentRaises_not_marked(w) ==
  /\ wk[w].pc = "call"
  /\ ~wk[w].cancel
  /\ faults < MaxFaults
  /\ faults' = faults + 1
  /\ wk' = Back(w)
  /\ hl' = CollectHl(hl, cm, wk')
  /\ ts' = CollectTs(ts, cm, wk')
  /\ UNCHANGED <<cm, queue, nextId>>
  /\ UNCHANGED unfinished
  /\ Frame

\* a model call raises: the exception leaves agent.execute and _worker's
\* "except Exception" swallows it (lines 122-124); what the agent already
\* changed in place stays changed
AgentRaises(w) ==
  /\ wk[w].pc = "call"
  /\ ~wk[w].cancel
  /\ faults < MaxFaults
  /\ faults' = faults + 1
  /\ wk' = Back(w)
  /\ hl' = CollectHl(hl, cm, wk')
  /\ ts' = CollectTs(ts, cm, wk')
  /\ UNCHANGED <<cm, queue, nextId>>
  /\ Marked(w)
  /\ Frame

\* WorkerCancelled with a cancellation that only reaches a worker waiting on the queue
WorkerCancelled_at_get_only(w) ==
  /\ wk[w].cancel
  /\ wk[w].pc = "get"
  /\ wk' = [wk EXCEPT ![w] = [IdleWorker EXCEPT !.pc = "exit", !.cancel = TRUE]]
  /\ hl' = CollectHl(hl, cm, wk')
  /\ ts' = CollectTs(ts, cm, wk')
  /\ UNCHANGED <<cm, queue, nextId, faults>>
  /\ UNCHANGED unfinished
  /\ Frame

\* CancelledError reaches the worker at the await it is suspended in
\* (lines 120-121): it leaves the loop, whatever it was doing
WorkerCancelled(w) ==
  /\ wk[w].cancel
  /\ wk[w].pc # "exit"
  /\ wk' = [wk EXCEPT ![w] = [IdleWorker EXCEPT !.pc = "exit", !.cancel = TRUE]]
  /\ hl' = CollectHl(hl, cm, wk')
  /\ ts' = CollectTs(ts, cm, wk')
  /\ UNCHANGED <<cm, queue, nextId, faults>>
  /\ UNCHANGED unfinished
  /\ Frame

\* the supervisor's loop, the meta-review call, and the steps of each worker
\* task (_worker, lines 104-124)
Next ==
  \/ Round
  \/ MetaReviewDone
  \/ \E w \in DOMAIN wk : SkipTask(w)
  \/ \E w \in DOMAIN wk : GenerationStart(w)
  \/ \E w \in DOMAIN wk : GenerationDone(w)
  \/ \E w \in DOMAIN wk : ReflectionStart(w)
  \/ \E w \in DOMAIN wk : ReflectionDone(w)
  \/ \E w \in DOMAIN wk : RankingStart(w)
  \/ \E w \in DOMAIN wk : RankingNextMatch(w)
  \/ \E w \in DOMAIN wk : RankingBatchDone(w)
  \/ \E w \in DOMAIN wk : EvolutionStart(w)
  \/ \E w \in DOMAIN wk : EvolutionDone(w)
  \/ \E w \in DOMAIN wk : AgentRaises(w)
  \/ \E w \in DOMAIN wk : WorkerCancelled(w)

\* a harness that registers the ranking agent and the meta-review agent only
TournamentOnly == {"ranking", "meta_review"}

\* a harness that registers the generation and evolution agents only
EvolutionOnly == {"generation", "evolution"}

\* a harness that registers the reflection agent and the meta-review agent only
ReviewOnly == {"reflection", "meta_review"}

\* Runs of the full registry of main.py on every seed, longer runs of the
\* harnesses.
Init ==
  \/ InitWith(SeedNames, {AllAgents}, 1 .. MaxIter, 1 .. MaxWorkers)
  \/ InitWith({"pair"}, {TournamentOnly}, {MaxIter + 2}, {MaxWorkers})
  \/ InitWith({"ranked"}, {EvolutionOnly}, {MaxIter + 1}, {MaxWorkers})
  \/ InitWith({"unordered", "growing"}, {TournamentOnly}, {MaxIter}, {MaxWorkers})
  \/ InitWith({"unreviewed"}, {ReviewOnly}, {MaxIter + 1}, {MaxWorkers})
  \/ InitWith({"plenty"}, {ReviewOnly}, {MaxIter}, {MaxWorkers})
  \/ InitStubbed({"empty", "fresh"}, {AllAgents}, {MaxIter}, 1 .. MaxWorkers, {StubCount})

Spec == Init /\ [][Next]_vars

\* ------------------------------------------------- runs under fair scheduling
\* the steps of worker w that neither raise nor cancel: taking a task and
\* returning from a model call
WorkerStep(w) ==
  \/ SkipTask(w)
  \/ GenerationStart(w)
  \/ GenerationDone(w)
  \/ ReflectionStart(w)
  \/ ReflectionDone(w)
  \/ RankingStart(w)
  \/ RankingNextMatch(w)
  \/ RankingBatchDone(w)
  \/ EvolutionStart(w)
  \/ EvolutionDone(w)

\* short runs of the three harnesses with MaxWorkers workers
InitFair ==
  \/ InitWith({"unreviewed"}, {ReviewOnly}, {MaxIter}, {MaxWorkers})
  \/ InitWith({"pair"}, {TournamentOnly}, {MaxIter}, {MaxWorkers})
  \/ InitWith({"ranked"}, {EvolutionOnly}, {MaxIter}, {MaxWorkers})

\* The event loop runs every coroutine that is ready: a cancellation requested
\* with Task.cancel() is delivered, and the last worker's model calls return.
\* The model calls of the other workers may never return, and the supervisor's
\* sleep is not required to end.
SpecFair ==
  /\ InitFair
  /\ [][Next]_vars
  /\ WF_vars(WorkerStep(MaxWorkers))
  /\ \A w \in 1 .. MaxWorkers : WF_vars(WorkerCancelled(w))

\* -------------------------------------------- the rating update on its own
\* ratings a pair of hypotheses is pre-seeded with
EloRatings == {800, 1184, 1200, 1216, 1300, 1600}

\* ratings the second hypothesis is pre-seeded with against a first one at 1200:
\* every rating difference of -800 .. 800
EloSweep == 400 .. 2000

\* two reviewed hypotheses with pre-seeded ratings and no match played yet
InitElo ==
  /\ max_iterations = 1
  /\ stub = 0
  /\ num_workers = 1
  /\ agents = {"ranking"}
  /\ shared = TRUE
  /\ cm = [o \in Owners |->
            IF o = "supervisor"
            THEN [SeedMemory("ranked") EXCEPT !.keys = @ \cup {"research_plan"}]
            ELSE EmptyMemory]
  /\ hl = [o \in ObjIds |-> IF o = 1 THEN SeedHyps("ranked") ELSE <<>>]
  /\ \E r1 \in EloRatings, r2 \in EloRatings \cup EloSweep :
       (r2 \in EloRatings \/ r1 = DefaultRating) /\
       ts = [o \in ObjIds |->
              IF o = 1
              THEN [_initialize_tournament EXCEPT
                      !.ratings = <<[id |-> 1, r |-> r1], [id |-> 2, r |-> r2]>>]
              ELSE _initialize_tournament]
  /\ nextId = 3
  /\ queue = <<>>
  /\ unfinished = 0
  /\ wk = [w \in 1 .. num_workers |-> IdleWorker]
  /\ sup = [pc |-> "sleep", i |-> 0]
  /\ running = TRUE
  /\ faults = 0
  /\ meta = [calls |-> 0, top_hypotheses |-> <<>>]
  /\ result = [status |-> "none", top_hypotheses |-> <<>>, statistics |-> <<>>]

\* one call of _update_elo_ratings for a match between hypotheses 1 and 2
EloMatch ==
  /\ Len(ts[1].matches) < MaxEloMatches
  /\ \E winner \in {1, 2} : ts' = [ts EXCEPT ![1] = _update_elo_ratings(1, 2, winner, @)]
  /\ UNCHANGED <<max_iterations, num_workers, agents, shared, stub, cm, hl, queue, wk, sup,
                 running, nextId, faults, meta, unfinished, result>>

SpecElo == InitElo /\ [][EloMatch]_vars

\* ================================================================ properties
\* the statistics records the supervisor has stored, in round order
StatsRecords == cm["supervisor"].stats

\* the ids of the hypotheses on the blackboard
BlackboardIds == Range(Ids(HypsOf(cm["supervisor"])))

\* completed_matches of the stored tournament state
StoredCompleted == TournamentOf(cm["supervisor"], ts).completed_matches

\* C1: in a round, once the statistics of round i are recorded, the loop stops
\* exactly when i >= max_iterations - 1 or the recorded statistics show at
\* least 10 hypotheses, at least 10 reviewed, at least 5 top-ranked and a
\* tournament progress above 0.9; and the loop stops in no other step.
C1_StopsIffTerminal ==
  [][LET recorded == Len(cm'["supervisor"].stats) = Len(cm["supervisor"].stats) + 1
         s == cm'["supervisor"].stats[Len(cm'["supervisor"].stats)]
         quality == /\ s.num_hypotheses >= 10
                    /\ s.num_reviewed >= 10
                    /\ Len(s.top_hypotheses) >= 5
                    /\ 10 * s.tournament_progress[1] > 9 * s.tournament_progress[2]
     IN /\ recorded => (~running' <=> (sup.i >= max_iterations - 1 \/ quality))
        /\ recorded => (running' <=> (sup'.pc = "sleep" /\ sup'.i = sup.i + 1))
        /\ (running /\ ~running') => recorded]_vars

\* C1 witness: the loop has stopped on the quality thresholds, before the
\* last permitted round
C1_QualityStop ==
  /\ ~running
  /\ sup.i < max_iterations - 1
  /\ Len(StatsRecords) = sup.i + 1

\* C2: the supervisor executes at most max_iterations rounds, whatever the
\* workers do, and when it has executed round max_iterations - 1 it has left
\* the loop and shut down.
C2_AtMostMaxRounds ==
  /\ Len(StatsRecords) <= max_iterations
  /\ sup.i <= max_iterations - 1
  /\ (sup.pc = "sleep") => (running /\ Len(StatsRecords) = sup.i)
  /\ (Len(StatsRecords) = max_iterations) =>
       (~running /\ sup.pc \in {"meta", "done"} /\ \A w \in DOMAIN wk : wk[w].cancel)

\* C2 witness: the last permitted round ended the run with the thresholds
\* unmet, after a model call failed and with a worker still inside a call
C2_LastRoundUnmet ==
  /\ max_iterations >= 2
  /\ Len(StatsRecords) = max_iterations
  /\ StatsRecords[max_iterations].num_hypotheses < MinHypotheses
  /\ faults >= 1
  /\ \E w \in DOMAIN wk : wk[w].pc = "call"

\* C3: num_hypotheses never decreases from one statistics record to a later one.
C3_NumHypothesesMonotone ==
  \A i \in DOMAIN StatsRecords, j \in DOMAIN StatsRecords :
    i < j => StatsRecords[i].num_hypotheses <= StatsRecords[j].num_hypotheses

\* C4: completed_matches of the stored tournament state never decreases.
C4_CompletedMatchesMonotone ==
  [][TournamentOf(cm'["supervisor"], ts').completed_matches >= StoredCompleted]_vars

\* C5: a hypothesis id on the blackboard stays on the blackboard.
C5_HypothesisNeverDeleted ==
  [][BlackboardIds \subseteq Range(Ids(HypList(cm'["supervisor"].hypotheses, hl')))]_vars

\* C6: a failure inside an agent call never ends the worker: every worker is
\* alive while the supervisor loop runs, and the step that handles the failure
\* puts the failing worker back at the queue, touching no other worker and no
\* queued task.
C6_WorkerSurvivesFailure ==
  [][/\ running' => \A w \in DOMAIN wk' : wk'[w].pc \in {"get", "call"}
     /\ (faults' = faults + 1) =>
          /\ queue' = queue
          /\ \E w \in DOMAIN wk :
               /\ wk[w].pc = "call"
               /\ wk'[w].pc = "get"
               /\ \A v \in DOMAIN wk \ {w} : wk'[v] = wk[v]]_vars

\* C6 witness: the only worker, after a failed call, is executing a later task
\* while the loop still runs
C6_LaterTaskAfterFailure ==
  /\ num_workers = 1
  /\ faults >= 1
  /\ running
  /\ wk[1].pc = "call"

\* C7: a task that ends with an error map leaves the blackboard as it was: a
\* step that takes a task off the queue and leaves the worker idle changes no
\* key and adds none.
C7_ErrorLeavesBlackboard ==
  [][(queue # <<>> /\ queue' = Tail(queue) /\ wk' = wk) =>
       (cm' = cm /\ hl' = hl /\ ts' = ts)]_vars

\* C8: meta_review runs only after every worker has exited, and at most once.
C8_MetaReviewAfterWorkersExit ==
  /\ meta.calls <= 1
  /\ (meta.calls >= 1) => \A w \in DOMAIN wk : wk[w].pc = "exit"

\* C9: when the run has completed and the final tournament state has a
\* non-empty top_ranked, the returned top_hypotheses is non-empty and lists
\* those ids in rank order.
C9_ReturnsTopRanked ==
  LET top == TournamentOf(cm["supervisor"], ts).top_ranked
  IN (result.status = "completed" /\ top # <<>>) =>
       /\ result.top_hypotheses # <<>>
       /\ Len(result.top_hypotheses) <= Len(top)
       /\ result.top_hypotheses = Take(top, Len(result.top_hypotheses))

\* C10: a match replaces both ratings by round(r + 32 * (s - e)) with
\* e = 1 / (1 + 10^((opponent - r) / 400)), both computed from the ratings
\* before the match: exactly so where the rating difference is a multiple of
\* 400, within 0 .. 32 points and on the right side of 16 everywhere, and
\* 1200 against 1200 gives 1216 to the winner and 1184 to the loser.
C10_EloUpdate ==
  [][LET r1 == ts[1].ratings[1].r
         r2 == ts[1].ratings[2].r
         n1 == ts'[1].ratings[1].r
         n2 == ts'[1].ratings[2].r
         s1 == IF ts'[1].matches[Len(ts'[1].matches)].winner = 1 THEN 1 ELSE 0
         Abs(x) == IF x >= 0 THEN x ELSE 0 - x
         Exact(r, opp, s, n) ==
           LET k == (opp - r) \div 400
               p == 10 ^ Abs(k)
               num == KFactor * (s * (1 + p) - (IF k >= 0 THEN 1 ELSE p))
           IN ((opp - r) % 400 = 0) => 2 * Abs((n - r) * (1 + p) - num) <= 1 + p
         Sided(r, opp, s, n) ==
           LET gain == IF s = 1 THEN n - r ELSE r - n
           IN /\ gain \in 0 .. KFactor
              /\ (s = 1 /\ opp >= r) => 2 * gain >= KFactor
              /\ (s = 1 /\ opp <= r) => 2 * gain <= KFactor
              /\ (s = 0 /\ opp <= r) => 2 * gain >= KFactor
              /\ (s = 0 /\ opp >= r) => 2 * gain <= KFactor
     IN /\ Len(ts'[1].matches) = Len(ts[1].matches) + 1
        /\ Exact(r1, r2, s1, n1) /\ Exact(r2, r1, 1 - s1, n2)
        /\ Sided(r1, r2, s1, n1) /\ Sided(r2, r1, 1 - s1, n2)
        /\ (r1 = DefaultRating /\ r2 = DefaultRating /\ s1 = 1) => (n1 = 1216 /\ n2 = 1184)
        /\ (r1 = DefaultRating /\ r2 = DefaultRating /\ s1 = 0) => (n1 = 1184 /\ n2 = 1216)]_vars

\* C10 witness: two hypotheses seeded at 1200 have played one match, won by the
\* first
C10_FirstMatchAtDefault ==
  /\ Len(ts[1].matches) = 1
  /\ ts[1].matches[1].winner = 1
  /\ ts[1].ratings = <<[id |-> 1, r |-> 1216], [id |-> 2, r |-> 1184]>>
  /\ queue = <<>>

\* C11: a match conserves rating points: the winner gains exactly what the
\* loser loses, so the sum of the two ratings is the same after the match as
\* before it, for every pair of ratings and either winner.
C11_EloConservation ==
  [][LET r1 == ts[1].ratings[1].r
         r2 == ts[1].ratings[2].r
         n1 == ts'[1].ratings[1].r
         n2 == ts'[1].ratings[2].r
         winner == ts'[1].matches[Len(ts'[1].matches)].winner
     IN /\ n1 + n2 = r1 + r2
        /\ (winner = 1) => (n1 - r1 = r2 - n2 /\ n1 >= r1)
        /\ (winner = 2) => (n2 - r2 = r1 - n1 /\ n2 >= r2)]_vars

\* C11 witness: 1200 has beaten 1600 and taken 29 points from it
C11_UpsetAcrossFourHundred ==
  /\ Len(ts[1].matches) = 1
  /\ ts[1].matches[1].winner = 1
  /\ ts[1].ratings = <<[id |-> 1, r |-> 1229], [id |-> 2, r |-> 1571]>>

\* C12: rating updates form one linear sequence: a match is applied to a
\* tournament state only when no other tournament state holds matches, so
\* every update starts from the ratings the previous update wrote; and the
\* update changes both participants' ratings in the same step.
C12_UpdatesSerialized ==
  [][\A o \in ObjIds :
       (Len(ts'[o].matches) = Len(ts[o].matches) + 1) =>
         /\ \A other \in ObjIds \ {o} : ts[other].matches = <<>>
         /\ LET m == ts'[o].matches[Len(ts'[o].matches)]
            IN /\ RatingOf(ts'[o].ratings, m.h1, 0)
                    = NewRating(RatingOf(ts[o].ratings, m.h1, DefaultRating),
                                RatingOf(ts[o].ratings, m.h2, DefaultRating),
                                IF m.winner = m.h1 THEN 1 ELSE 0)
               /\ RatingOf(ts'[o].ratings, m.h2, 0)
                    = NewRating(RatingOf(ts[o].ratings, m.h2, DefaultRating),
                                RatingOf(ts[o].ratings, m.h1, DefaultRating),
                                IF m.winner = m.h2 THEN 1 ELSE 0)]_vars

\* C13: a hypothesis id enters the ratings of a tournament state at 1200: in
\* every step, an id that has a rating afterwards and had none before is rated
\* 1200, and both participants of a newly recorded match had a rating before
\* the step that updated them.
C13_EntersAtDefault ==
  [][\A o \in ObjIds :
       /\ \A k \in DOMAIN ts'[o].ratings :
            ~HasRating(ts[o].ratings, ts'[o].ratings[k].id) => ts'[o].ratings[k].r = 1200
       /\ (Len(ts'[o].matches) = Len(ts[o].matches) + 1) =>
            LET m == ts'[o].matches[Len(ts'[o].matches)]
            IN HasRating(ts[o].ratings, m.h1) /\ HasRating(ts[o].ratings, m.h2)]_vars

\* C13 witness: a batch has entered two hypotheses into a tournament state
\* that had no ratings, and no match has been played in it yet
C13_JustEntered ==
  \E w \in DOMAIN wk :
    /\ wk[w].pc = "call"
    /\ wk[w].task.agent = "ranking"
    /\ ts[wk[w].tsref].matches = <<>>
    /\ ts[wk[w].tsref].ratings = <<[id |-> 1, r |-> 1200], [id |-> 2, r |-> 1200]>>

\* C14: when a batch begins a match, the kind of the match is debate exactly
\* when both participants are rated at least 1300 in the tournament state the
\* batch updates, and the ratings it consulted for that (those of the stored
\* tournament state, 1200 where the stored state has none) are the
\* participants' ratings in that state.
C14_KindFromCurrentRatings ==
  [][\A w \in DOMAIN wk :
       (/\ wk'[w].pc = "call"
        /\ wk'[w].task.agent = "ranking"
        /\ (wk[w].pc = "get" \/ Len(wk'[w].batch) = Len(wk[w].batch) + 1)) =>
         LET current == ts'[wk'[w].tsref].ratings
             consulted == StoredRatings(cm'[Own("ranking")], ts')
             h1 == wk'[w].eligible[1]
             h2 == wk'[w].eligible[2]
         IN /\ (wk'[w].kind = "debate") <=>
                 (RatingOf(current, h1, 1200) >= 1300 /\ RatingOf(current, h2, 1200) >= 1300)
            /\ RatingOf(consulted, h1, 1200) = RatingOf(current, h1, 1200)
            /\ RatingOf(consulted, h2, 1200) = RatingOf(current, h2, 1200)]_vars

C16_TopRankedOrder ==
  [][\A o \in ObjIds :
       (ts'[o].top_ranked # ts[o].top_ranked
          \/ ts'[o].completed_matches # ts[o].completed_matches) =>
         LET t == ts'[o]
             r(k) == RatingOf(t.ratings, t.top_ranked[k], 0)
         IN \A i \in DOMAIN t.top_ranked, j \in DOMAIN t.top_ranked :
              i < j => \/ r(i) > r(j)
                       \/ (r(i) = r(j) /\ t.top_ranked[i] < t.top_ranked[j])]_vars

\* C17: in the tournament state stored on the blackboard, the ids in
\* top_ranked are exactly the ids that have a rating.
C17_TopRankedIsRatingsKeys ==
  LET t == TournamentOf(cm["supervisor"], ts)
  IN Range(t.top_ranked) = {t.ratings[k].id : k \in DOMAIN t.ratings}

\* C18: every match recorded in a tournament state has two different
\* participants, and its winner is one of the two.
C18_MatchWellFormed ==
  \A o \in ObjIds : \A k \in DOMAIN ts[o].matches :
    LET m == ts[o].matches[k]
    IN m.h1 # m.h2 /\ m.winner \in {m.h1, m.h2}

\* a running batch has recorded a match that the second participant won
C18_SecondWon ==
  \E w \in DOMAIN wk :
    /\ wk[w].batch # <<>>
    /\ wk[w].tsref # 0
    /\ LET ms == ts[wk[w].tsref].matches
       IN ms # <<>> /\ ms[Len(ms)].winner = ms[Len(ms)].h2

\* the float min(1.0, completed / pairs) of n eligible hypotheses, as a fraction
Clamped(completed, n) ==
  LET pairs == (n * (n - 1)) \div 2
  IN IF completed >= pairs THEN <<1, 1>> ELSE <<completed, pairs>>

FracEq(p, q) == p[1] * q[2] = q[1] * p[2]

\* C19: the tournament state a ranking batch stores has progress equal to
\* completed_matches / C(n,2) clamped to [0,1], n being the number of
\* hypotheses eligible in that batch; and every tournament state has
\* 0 <= progress <= 1.
C19_ProgressFormula ==
  /\ [](\A o \in ObjIds :
          /\ ts[o].progress[2] > 0
          /\ FracLeq(<<0, 1>>, ts[o].progress)
          /\ FracLeq(ts[o].progress, <<1, 1>>))
  /\ [][\A w \in DOMAIN wk :
          (InCall(w, "ranking") /\ wk'[w] = IdleWorker /\ faults' = faults)
          => LET t == TournamentOf(cm'["supervisor"], ts')
             IN /\ cm'["supervisor"].tournament_state = wk[w].tsref
                /\ FracEq(t.progress, Clamped(t.completed_matches, Len(wk[w].eligible)))]_vars

\* a batch has added its matches to a stored tournament state and left the
\* progress strictly between 0 and 1
C19_PartialProgress ==
  LET t == TournamentOf(cm["supervisor"], ts)
  IN /\ t.completed_matches > TournamentCount
     /\ FracLess(<<0, 1>>, t.progress)
     /\ FracLess(t.progress, <<1, 1>>)

\* C20: the progress of the tournament state on the blackboard never
\* decreases from one state to the next.
C20_ProgressMonotone ==
  [][FracLeq(TournamentOf(cm["supervisor"], ts).progress,
             TournamentOf(cm'["supervisor"], ts').progress)]_vars

\* C21: run_tournament_matches with fewer than two eligible hypotheses leaves
\* the blackboard's tournament_state entry as it was: present with the same
\* value, or absent.
C21_ErrorKeepsTournamentState ==
  [][(/\ \E w \in DOMAIN wk : CanTake(w, "ranking")
      /\ Len(Eligible(cm[Own("ranking")])) < 2
      /\ queue' = Tail(queue))
     => /\ ("tournament_state" \in cm'["supervisor"].keys)
             <=> ("tournament_state" \in cm["supervisor"].keys)
        /\ TournamentOf(cm'["supervisor"], ts') = TournamentOf(cm["supervisor"], ts)]_vars

\* C22: every recorded statistics record has num_reviewed <= num_hypotheses.
C22_ReviewedAtMostHypotheses ==
  \A k \in DOMAIN StatsRecords :
    StatsRecords[k].num_reviewed <= StatsRecords[k].num_hypotheses

\* the hypotheses whose review results can be read from the blackboard: the
\* worker stores the items of a review map under the keys of ReviewKeys
ReviewDataOf(m) == IF "hypothesis_id" \in m.keys THEN {m.hypothesis_id} ELSE {}

\* C23: a completed review of an id that is already reviewed leaves the set of
\* reviewed ids unchanged, and review results that could be read from the
\* blackboard can still be read after every later step.
C23_ReviewIdempotentKeepsData ==
  [][/\ \A w \in DOMAIN wk :
          (/\ InCall(w, "reflection")
           /\ wk'[w] = IdleWorker
           /\ faults' = faults
           /\ wk[w].task.hypothesis_id \in Range(cm[Own("reflection")].reviewed))
          => Range(cm'[Own("reflection")].reviewed) = Range(cm[Own("reflection")].reviewed)
     /\ ReviewDataOf(cm["supervisor"]) \subseteq ReviewDataOf(cm'["supervisor"])]_vars

\* C24: in every hypothesis list, each hypothesis that records a parent has
\* its parent in the same list.
C24_ParentsPresent ==
  \A o \in ObjIds : \A k \in DOMAIN hl[o] :
    hl[o][k].parent # 0 => hl[o][k].parent \in Range(Ids(hl[o]))

\* the blackboard list holds an evolved hypothesis after a generation task
\* replaced the list object the evolution had read
C24_EvolvedOnBlackboard ==
  LET hyps == HypsOf(cm["supervisor"])
  IN /\ \E k \in DOMAIN hyps : hyps[k].parent # 0
     /\ "generated_hypotheses" \in cm["supervisor"].keys
     /\ "evolved_hypothesis" \in cm["supervisor"].keys

\* C25: whenever the supervisor computes statistics, the tournament state it
\* reads has completed_matches equal to the number of recorded matches and a
\* top_ranked that is the rated ids in the order of the current ratings.
C25_ReadersSeeWholeState ==
  [][Len(cm'["supervisor"].stats) = Len(cm["supervisor"].stats) + 1
     => LET t == TournamentOf(cm["supervisor"], ts)
        IN /\ t.completed_matches = Len(t.matches)
           /\ t.top_ranked = Ids(SortDesc(t.ratings))]_vars

\* C26: the task queue is bounded: every step that adds tasks is made with a
\* finite capacity configured and leaves the queue within that capacity.
C26_QueueBounded ==
  [][Len(queue') > Len(queue) => (QueueMaxsize > 0 /\ Len(queue') <= QueueMaxsize)]_vars

\* C27: while shutdown has not been signalled, every task in the queue is
\* eventually dequeued even if the model calls of all workers but one never
\* return: from a state with pending tasks the run reaches a state where the
\* queue has been emptied or shutdown has been signalled.
C27_QueueDrainsDespiteHang ==
  (running /\ queue # <<>>) ~> (queue = <<>> \/ ~running)

\* the first worker has been inside its model call since before the refill,
\* and the tasks of the refill have all been dequeued
C27_OthersDrainedQueue ==
  /\ running
  /\ sup.i >= 1
  /\ queue = <<>>
  /\ wk[1].pc = "call"
  /\ wk[MaxWorkers].pc = "get"

\* C28: once shutdown is signalled every worker eventually exits, and a worker
\* only ever exits by leaving its loop on the cancellation that follows
\* shutdown, never through an error.
C28_WorkersExitAfterShutdown ==
  /\ (~running) ~> (\A w \in DOMAIN wk : wk[w].pc = "exit")
  /\ [][\A w \in DOMAIN wk :
          (wk[w].pc # "exit" /\ wk'[w].pc = "exit") => (~running /\ wk[w].cancel)]_vars

\* one worker has exited while another, cancelled in the middle of an agent
\* call, has not yet
C28_CancelledInCall ==
  \E w, v \in DOMAIN wk :
    /\ wk[w].pc = "exit"
    /\ wk[v].pc = "call"
    /\ wk[v].cancel

\* C29: a run of main.py's wiring (empty context memory, every agent
\* registered) with max_iterations = 1 ends with status "completed", no
\* hypothesis on the blackboard, no recorded match and exactly one statistics
\* record.  An empty research goal only skips _parse_research_goal.
C29_EmptyGoalSingleRound ==
  (/\ ~shared
   /\ agents = AllAgents
   /\ max_iterations = 1
   /\ sup.pc = "done")
  => /\ result.status = "completed"
     /\ Len(HypsOf(cm["supervisor"])) = 0
     /\ Len(TournamentOf(cm["supervisor"], ts).matches) = 0
     /\ Len(StatsRecords) = 1

\* C30: with generation stubbed to emit exactly two hypotheses and
\* max_iterations = 2, when the workers have processed every task of the
\* first round's refill by the time the supervisor shuts down, the tournament
\* state on the blackboard has at least one match and both hypotheses in
\* top_ranked.
C30_TwoHypothesesRanked ==
  [][(/\ stub = StubCount
      /\ max_iterations = 2
      /\ sup.i = 1
      /\ running /\ ~running'
      /\ queue = <<>>
      /\ \A w \in DOMAIN wk : wk[w].pc = "get")
     => LET t == TournamentOf(cm'["supervisor"], ts')
        IN /\ Len(t.matches) >= 1
           /\ {1, 2} \subseteq Range(t.top_ranked)]_vars

\* the tasks a step has put on the queue, when it removed none
Added == SubSeq(queue', Len(queue) + 1, Len(queue'))

\* the statistics record a round has just stored
Recorded == cm'["supervisor"].stats[Len(cm'["supervisor"].stats)]

\* a step in which the supervisor has run a round that did not end the loop
Refill == sup.pc = "sleep" /\ sup'.i = sup.i + 1

\* number of the tasks in q for the given agent and task type
CountTasks(q, agent, type) ==
  Cardinality({k \in DOMAIN q : q[k].agent = agent /\ q[k].task_type = type})

\* C31: a non-terminal round enqueues exactly one generate_hypotheses task,
\* with count 5, if that round's num_hypotheses is below 20 and none otherwise;
\* and exactly one run_tournament_matches task, with count 10, if that
\* round's tournament_progress is below 0.8 and none otherwise.
C31_GenerationAndRankingTasks ==
  [][Refill =>
       /\ CountTasks(Added, "generation", "generate_hypotheses")
            = (IF Recorded.num_hypotheses < 20 THEN 1 ELSE 0)
       /\ CountTasks(Added, "ranking", "run_tournament_matches")
            = (IF Recorded.tournament_progress[1] * 10 < 8 * Recorded.tournament_progress[2]
               THEN 1 ELSE 0)
       /\ \A k \in DOMAIN Added :
            /\ Added[k].agent = "generation" => (Added[k].task_type = "generate_hypotheses"
                                                 /\ Added[k].count = 5)
            /\ Added[k].agent = "ranking" => (Added[k].task_type = "run_tournament_matches"
                                              /\ Added[k].count = 10)]_vars

\* a round has found the target reached and the tournament under way: its
\* refill holds a tournament task and no generation task
C31_TargetReached ==
  /\ sup.i = 1
  /\ StatsRecords[1].num_hypotheses >= TargetHypotheses
  /\ FracLess(StatsRecords[1].tournament_progress, <<4, 5>>)
  /\ CountTasks(queue, "ranking", "run_tournament_matches") = 1
  /\ CountTasks(queue, "generation", "generate_hypotheses") = 0

\* the hypothesis ids of the tasks in q for the given agent, in queue order
RECURSIVE TaskIds(_, _)
TaskIds(q, agent) ==
  IF q = <<>> THEN <<>>
  ELSE IF Head(q).agent = agent THEN <<Head(q).hypothesis_id>> \o TaskIds(Tail(q), agent)
  ELSE TaskIds(Tail(q), agent)

\* C32: a non-terminal round enqueues one review_hypothesis task for each of
\* the first min(5, number unreviewed) unreviewed ids of that round's
\* statistics and one evolve_hypothesis task for each of the first
\* min(3, number top-ranked) top-ranked ids, and none for any other id.
C32_ReviewAndEvolutionTasks ==
  [][Refill =>
       LET unrev == Recorded.unreviewed_hypotheses
           top == Recorded.top_hypotheses
       IN /\ TaskIds(Added, "reflection") = SubSeq(unrev, 1, Min(5, Len(unrev)))
          /\ TaskIds(Added, "evolution") = SubSeq(top, 1, Min(3, Len(top)))
          /\ \A k \in DOMAIN Added :
               /\ Added[k].agent = "reflection" => Added[k].task_type = "review_hypothesis"
               /\ Added[k].agent = "evolution" => Added[k].task_type = "evolve_hypothesis"]_vars

\* a round has found more than five unreviewed hypotheses, and a round has
\* found more than three top-ranked ones
C32_MoreThanTheSlices ==
  /\ sup.i = 1
  /\ \/ Len(StatsRecords[1].unreviewed_hypotheses) > ReviewsPerRound
     \/ Len(StatsRecords[1].top_hypotheses) > EvolutionsPerRound
  /\ queue # <<>>
  /\ queue[Len(queue)].agent \in {"evolution", "ranking"}

\* C33: every third non-terminal round enqueues one calculate_proximity task.
C33_PeriodicProximityTask ==
  [][(Refill /\ (sup.i + 1) % ProximityEvery = 0)
     => CountTasks(Added, "proximity", "calculate_proximity") = 1]_vars

\* C34: the round whose termination predicate is true enqueues nothing and
\* nothing is enqueued after it; the queue grows only in a round whose
\* predicate is false.
C34_RefillOnlyWhenNotTerminal ==
  [][/\ ~running' => queue' = queue
     /\ Len(queue') > Len(queue)
          => /\ Refill
             /\ ~_check_terminal_state(Recorded, sup.i, max_iterations)]_vars

C34_TerminalRoundWithBacklog ==
  /\ ~running
  /\ sup.i >= 1
  /\ queue # <<>>
  /\ cm["supervisor"].stats[Len(cm["supervisor"].stats)].num_hypotheses < TargetHypotheses

\* position of an agent in the order _update_task_queue puts its tasks
AgentRank(agent) ==
  CASE agent = "generation" -> 1
    [] agent = "reflection" -> 2
    [] agent = "ranking" -> 3
    [] OTHER -> 4

\* C35: the queue is first-in first-out: a refill appends behind every
\* waiting task, in the order generation, reviews, ranking, evolutions, and
\* a worker always takes the oldest waiting task.
C35_Fifo ==
  [][\/ queue' = queue
     \/ /\ Refill
        /\ queue' = queue \o Added
        /\ \A j, k \in DOMAIN Added :
             j < k => AgentRank(Added[j].agent) <= AgentRank(Added[k].agent)
     \/ /\ queue # <<>>
        /\ queue' = Tail(queue)
        /\ \E w \in DOMAIN wk :
             /\ wk[w].pc = "get"
             /\ \A v \in DOMAIN wk \ {w} : wk'[v] = wk[v]
             /\ wk'[w].pc = "call" => wk'[w].task = Head(queue)]_vars

C35_OlderTaskTakenWhileNewerWait ==
  /\ sup.i >= 2
  /\ Len(queue) >= 2
  /\ \E w \in DOMAIN wk : wk[w].pc = "call" /\ wk[w].task.agent # queue[Len(queue)].agent

\* C36: every executed round stores one statistics record, in round order,
\* and no step changes a stored record; when the run has returned, the records
\* are those of rounds 0 .. r, r the round that stopped it, and the returned
\* statistics are the record of round r.
C36_OneRecordPerRound ==
  /\ [](/\ Len(StatsRecords) = sup.i + (IF sup.pc = "sleep" THEN 0 ELSE 1)
        /\ sup.pc = "done"
             => /\ _check_terminal_state(StatsRecords[sup.i + 1], sup.i, max_iterations)
                /\ \A k \in 1 .. sup.i :
                     ~_check_terminal_state(StatsRecords[k], k - 1, max_iterations)
                /\ result.statistics = <<StatsRecords[sup.i + 1]>>)
  /\ [][/\ Len(StatsRecords') \in {Len(StatsRecords), Len(StatsRecords) + 1}
        /\ \A k \in DOMAIN StatsRecords : StatsRecords'[k] = StatsRecords[k]
        /\ Len(StatsRecords') = Len(StatsRecords) + 1
             <=> (sup.pc = "sleep" /\ sup' # sup)]_vars

C36_ReturnedLaterRound ==
  /\ sup.pc = "done"
  /\ sup.i >= 1
  /\ StatsRecords[sup.i + 1] # StatsRecords[1]

\* the worker w plays a match of its batch in this step
PlaysMatch(w) ==
  /\ wk[w].pc = "call"
  /\ wk[w].task.agent = "ranking"
  /\ wk'[w] # wk[w]
  /\ Len(ts'[wk[w].tsref].matches) = Len(ts[wk[w].tsref].matches) + 1

\* the worker w starts a batch of matches in this step
StartsBatch(w) ==
  /\ wk[w].pc = "get"
  /\ wk'[w].pc = "call"
  /\ wk'[w].task.agent = "ranking"

\* the ids that have played in a match recorded in tournament state t
Played(t) == {t.matches[k].h1 : k \in DOMAIN t.matches} \cup {t.matches[k].h2 : k \in DOMAIN t.matches}

\* C37: every match of a batch is between the first two eligible hypotheses,
\* in hypothesis-list order, as they were when the batch started; a match
\* leaves every other rating as it was, and a hypothesis that never played
\* has no rating or the rating 1200.
C37_SamePairThroughoutBatch ==
  /\ [](\A o \in ObjIds : \A k \in DOMAIN ts[o].ratings :
          ts[o].ratings[k].id \notin Played(ts[o]) => ts[o].ratings[k].r = DefaultRating)
  /\ [][\A w \in DOMAIN wk :
          /\ StartsBatch(w) =>
               LET m == cm[Own("ranking")]
                   reviewed == {m.reviewed[k] : k \in DOMAIN m.reviewed}
                   hyps == HypList(m.hypotheses, hl)
                   first == {k \in DOMAIN hyps : hyps[k].id \in reviewed}
                   k1 == CHOOSE k \in first : \A j \in first : k <= j
                   k2 == CHOOSE k \in first \ {k1} : \A j \in first \ {k1} : k <= j
               IN /\ Cardinality(first) >= 2
                  /\ wk'[w].eligible[1] = hyps[k1].id
                  /\ wk'[w].eligible[2] = hyps[k2].id
          /\ PlaysMatch(w) =>
               LET old == ts[wk[w].tsref]
                   new == ts'[wk[w].tsref]
                   match == new.matches[Len(new.matches)]
                   pair == IF wk[w].batch = <<>>
                           THEN <<wk[w].eligible[1], wk[w].eligible[2]>>
                           ELSE <<wk[w].batch[1].h1, wk[w].batch[1].h2>>
               IN /\ <<match.h1, match.h2>> = pair
                  /\ \A id \in 1 .. nextId : id \notin {pair[1], pair[2]} =>
                       /\ HasRating(new.ratings, id) = HasRating(old.ratings, id)
                       /\ RatingOf(new.ratings, id, 0) = RatingOf(old.ratings, id, 0)]_vars

C37_ThirdEligibleUnplayed ==
  \E w \in DOMAIN wk :
    /\ wk[w].pc = "call"
    /\ wk[w].task.agent = "ranking"
    /\ wk[w].batch # <<>>
    /\ Len(wk[w].eligible) >= 3
    /\ LET rs == ts[wk[w].tsref].ratings
       IN /\ RatingOf(rs, wk[w].eligible[1], 0) \notin {0, DefaultRating}
          /\ \A k \in 3 .. Len(wk[w].eligible) : RatingOf(rs, wk[w].eligible[k], 0) = DefaultRating

\* the most tasks one refill can put: one generation task, the reviews, one
\* ranking task and the evolutions
MaxTasksPerRound == 1 + ReviewsPerRound + 1 + EvolutionsPerRound

\* the number of tasks the refills of rounds 0 .. n - 1 have put
RECURSIVE Refilled(_)
Refilled(n) ==
  IF n = 0 THEN 0 ELSE Refilled(n - 1) + Len(_update_task_queue(StatsRecords[n]))

\* the number of tasks put on the queue since the run started
Enqueued == Len(InitialQueue(agents)) + Refilled(sup.i)

InExecution == {w \in DOMAIN wk : wk[w].pc = "call"}

\* tasks taken from the queue, not marked done and in no worker's hands
Abandoned == unfinished - Len(queue) - Cardinality(InExecution)

\* C39: a task taken from the queue is marked done once, when its agent
\* returns, is not registered, or raises; the tasks taken and never marked are
\* those a worker was executing when it was cancelled at shutdown, and
\* task_done is never called more often than get.
C39_TaskDoneOncePerTask ==
  /\ [](/\ unfinished >= Len(queue)
        /\ Abandoned >= 0
        /\ running => Abandoned = 0)
  /\ [][/\ \A w \in DOMAIN wk :
             /\ (wk[w].pc = "call" /\ wk'[w].pc = "get") => unfinished' = unfinished - 1
             /\ (wk[w].pc = "call" /\ wk'[w].pc = "exit") =>
                  wk[w].cancel /\ unfinished' = unfinished /\ Abandoned' = Abandoned + 1
        /\ (queue # <<>> /\ queue' = Tail(queue) /\ wk' = wk) => unfinished' = unfinished - 1
        /\ Abandoned' # Abandoned =>
             \E w \in DOMAIN wk : wk[w].pc = "call" /\ wk[w].cancel /\ wk'[w].pc = "exit"]_vars

C39_RaisedAndCancelled ==
  /\ faults >= 1
  /\ Abandoned >= 1
  /\ \A w \in DOMAIN wk : wk[w].pc = "exit"

\* tournament state new is old after one rating update for the pair h1, h2:
\* one more match record, the ratings of h1 and h2 set, all else as it was
UpdateFrame(old, new, h1, h2) ==
  /\ Len(new.matches) = Len(old.matches) + 1
  /\ SubSeq(new.matches, 1, Len(old.matches)) = old.matches
  /\ new.matches[Len(new.matches)].h1 = h1
  /\ new.matches[Len(new.matches)].h2 = h2
  /\ {new.ratings[k].id : k \in DOMAIN new.ratings}
       = {old.ratings[k].id : k \in DOMAIN old.ratings} \cup {h1, h2}
  /\ \A k \in DOMAIN old.ratings :
       old.ratings[k].id \notin {h1, h2} => new.ratings[k] = old.ratings[k]
  /\ new.completed_matches = old.completed_matches
  /\ new.progress = old.progress
  /\ new.top_ranked = old.top_ranked

\* C40: a rating update for a match between h1 and h2 sets the ratings of h1
\* and h2 and appends one match record; every other rating,
\* completed_matches, progress, top_ranked, the hypothesis lists and the
\* reviewed lists are as before.
C40_RatingUpdateFrame ==
  /\ [](\A w \in DOMAIN wk :
          (wk[w].pc = "call" /\ wk[w].task.agent = "ranking") =>
             \A winner \in {wk[w].eligible[1], wk[w].eligible[2]} :
               UpdateFrame(ts[wk[w].tsref],
                           _update_elo_ratings(wk[w].eligible[1], wk[w].eligible[2],
                                               winner, ts[wk[w].tsref]),
                           wk[w].eligible[1], wk[w].eligible[2]))
  /\ [][\A w \in DOMAIN wk :
          (PlaysMatch(w) /\ wk'[w].pc = "call") =>
             /\ UpdateFrame(ts[wk[w].tsref], ts'[wk[w].tsref],
                            wk[w].eligible[1], wk[w].eligible[2])
             /\ \A o \in ObjIds \ {wk[w].tsref} : ts'[o] = ts[o]
             /\ hl' = hl
             /\ cm' = cm]_vars

C40_UpdatedAmongOthers ==
  \E w \in DOMAIN wk :
    /\ wk[w].pc = "call"
    /\ wk[w].task.agent = "ranking"
    /\ wk[w].batch # <<>>
    /\ Len(ts[wk[w].tsref].ratings) >= 3
    /\ ts[wk[w].tsref].completed_matches < Len(ts[wk[w].tsref].matches)
    /\ ts[wk[w].tsref].completed_matches > 0

====
